---- MODULE Spec2Model ----
(***************************************************************************)
(* Model of the bdaddr crate: Bluetooth device addresses, their           *)
(* classification by tag bits, the colon-hex text codec and the           *)
(* resolvable-private-address test against an identity resolving key.     *)
(*                                                                         *)
(* The crate is a library of pure value constructors.  The model holds    *)
(* one value at a time: `arg` is the input the caller started from (six   *)
(* bytes or a text), `val` the value currently held, `op` the operation   *)
(* that produced it from `prev`, `key` the IRK given to `matches` and     *)
(* `hash` the cipher block `matches` computed (empty when it did not).    *)
(* Rust index i of an array is index i+1 of the TLA+ sequence.            *)
(***************************************************************************)
EXTENDS Integers, Sequences, FiniteSets, TLC

VARIABLES arg, prev, op, val, key, hash

vars == <<arg, prev, op, val, key, hash>>

-----------------------------------------------------------------------------
(* Bounds of the input sets.                                               *)

NumTopBytes == 8
NumLowParts == 3
MaxFields == 7

-----------------------------------------------------------------------------
(* u8 arithmetic.                                                          *)

RECURSIVE BitAnd(_, _)
BitAnd(a, b) ==
    IF a = 0 \/ b = 0 THEN 0
    ELSE (a % 2) * (b % 2) + 2 * BitAnd(a \div 2, b \div 2)

RECURSIVE Shr(_, _)
Shr(a, n) == IF n = 0 THEN a ELSE Shr(a \div 2, n - 1)

At(v, i) == v[i + 1]

Reverse(q) == [i \in 1..Len(q) |-> q[Len(q) + 1 - i]]

-----------------------------------------------------------------------------
(* Values.                                                                 *)

Bytes(b) == [t |-> "bytes", b |-> b]
Str(s) == [t |-> "str", s |-> s]
Unit == [t |-> "none"]
Ok(x) == [t |-> "Ok", x |-> x]
Err(e) == [t |-> "Err", e |-> e]
Bool(x) == [t |-> "bool", x |-> x]

AddressParseError == [t |-> "AddressParseError"]
InvalidBitsForAddressType(expect, actual) ==
    [t |-> "InvalidBitsForAddressType", f0 |-> expect, f1 |-> actual]

BdAddr(b) == [t |-> "BdAddr", f0 |-> b]
PublicDeviceAddress(a) == [t |-> "PublicDeviceAddress", f0 |-> a]
NonResolvablePrivateAddress(a) == [t |-> "NonResolvablePrivateAddress", f0 |-> a]
ResolvablePrivateAddress(a) == [t |-> "ResolvablePrivateAddress", f0 |-> a]
StaticDeviceAddress(a) == [t |-> "StaticDeviceAddress", f0 |-> a]

NonResolvable(x) == [t |-> "RandomDeviceAddress", v |-> "NonResolvable", f0 |-> x]
Resolvable(x) == [t |-> "RandomDeviceAddress", v |-> "Resolvable", f0 |-> x]
Static(x) == [t |-> "RandomDeviceAddress", v |-> "Static", f0 |-> x]
Unknown(x) == [t |-> "RandomDeviceAddress", v |-> "Unknown", f0 |-> x]

BrEdr(x) == [t |-> "Address", v |-> "BrEdr", f0 |-> x]
LePublic(x) == [t |-> "Address", v |-> "LePublic", f0 |-> x]
LeRandom(x) == [t |-> "Address", v |-> "LeRandom", f0 |-> x]

NonResolvablePrivateAddress_TAG == 0
ResolvablePrivateAddress_TAG == 1
StaticDeviceAddress_TAG == 3

-----------------------------------------------------------------------------
(* Constructors and conversions of addr.rs.                                *)

BdAddr_from(v) == BdAddr(v)

BdAddr_into_bytes(v) == v.f0

PublicDeviceAddress_from(v) == PublicDeviceAddress(BdAddr_from(v))

Address_from_PublicDeviceAddress(v) == LePublic(v)

NonResolvablePrivateAddress_try_from(v) ==
    IF Shr(BitAnd(At(v, 5), 192), 6) = NonResolvablePrivateAddress_TAG
    THEN Ok(NonResolvablePrivateAddress(BdAddr_from(v)))
    ELSE Err(InvalidBitsForAddressType(NonResolvablePrivateAddress_TAG,
                                       Shr(BitAnd(At(v, 5), 192), 6)))

(* ResolvablePrivateAddress::try_from testing bit 6 only *)
ResolvablePrivateAddress_try_from_one_bit(v) ==
    IF Shr(BitAnd(At(v, 5), 64), 6) = ResolvablePrivateAddress_TAG
    THEN Ok(ResolvablePrivateAddress(BdAddr_from(v)))
    ELSE Err(InvalidBitsForAddressType(ResolvablePrivateAddress_TAG,
                                       Shr(BitAnd(At(v, 5), 192), 6)))

ResolvablePrivateAddress_try_from(v) ==
    IF Shr(BitAnd(At(v, 5), 192), 6) = ResolvablePrivateAddress_TAG
    THEN Ok(ResolvablePrivateAddress(BdAddr_from(v)))
    ELSE Err(InvalidBitsForAddressType(ResolvablePrivateAddress_TAG,
                                       Shr(BitAnd(At(v, 5), 192), 6)))

(* StaticDeviceAddress::try_from reporting (actual, expected) in its error *)
StaticDeviceAddress_try_from_swapped(v) ==
    IF Shr(BitAnd(At(v, 5), 192), 6) = StaticDeviceAddress_TAG
    THEN Ok(StaticDeviceAddress(BdAddr_from(v)))
    ELSE Err(InvalidBitsForAddressType(Shr(BitAnd(At(v, 5), 192), 6),
                                       StaticDeviceAddress_TAG))

StaticDeviceAddress_try_from(v) ==
    IF Shr(BitAnd(At(v, 5), 192), 6) = StaticDeviceAddress_TAG
    THEN Ok(StaticDeviceAddress(BdAddr_from(v)))
    ELSE Err(InvalidBitsForAddressType(StaticDeviceAddress_TAG,
                                       Shr(BitAnd(At(v, 5), 192), 6)))

RandomDeviceAddress_from_NonResolvable(v) == NonResolvable(v)

RandomDeviceAddress_from_Resolvable(v) == Resolvable(v)

RandomDeviceAddress_from_Static(v) == Static(v)

(* RandomDeviceAddress::new with the Static and Unknown arms exchanged *)
RandomDeviceAddress_new_swapped(addr) ==
    LET tag == Shr(BitAnd(At(addr.f0, 5), 192), 6) IN
    CASE tag = NonResolvablePrivateAddress_TAG ->
             NonResolvable(NonResolvablePrivateAddress(addr))
      [] tag = ResolvablePrivateAddress_TAG ->
             Resolvable(ResolvablePrivateAddress(addr))
      [] tag = 2 -> Static(StaticDeviceAddress(addr))
      [] OTHER -> Unknown(addr)

RandomDeviceAddress_new(addr) ==
    LET tag == Shr(BitAnd(At(addr.f0, 5), 192), 6) IN
    CASE tag = NonResolvablePrivateAddress_TAG ->
             NonResolvable(NonResolvablePrivateAddress(addr))
      [] tag = ResolvablePrivateAddress_TAG ->
             Resolvable(ResolvablePrivateAddress(addr))
      [] tag = StaticDeviceAddress_TAG ->
             Static(StaticDeviceAddress(addr))
      [] OTHER -> Unknown(addr)

RandomDeviceAddress_from(v) == RandomDeviceAddress_new(BdAddr_from(v))

Address_from_RandomDeviceAddress(v) == LeRandom(v)

to_br_edr_addr(self) == BrEdr(self)

to_le_public_addr(self) == LePublic(PublicDeviceAddress(self))

to_le_random_addr(self) == LeRandom(RandomDeviceAddress_new(self))

bredr_from(b) == BrEdr(BdAddr_from(b))

le_public_from(b) == LePublic(PublicDeviceAddress_from(b))

le_random_from(b) == LeRandom(RandomDeviceAddress_from(b))

(* Address::into_bd_addr taking "discards the tag" literally: the LeRandom *)
(* arms clear the top two bits of byte 5                                   *)
into_bd_addr_tag_cleared(self) ==
    CASE self.v = "BrEdr" -> self.f0
      [] self.v = "LePublic" -> self.f0.f0
      [] self.v = "LeRandom" /\ self.f0.v # "Unknown" ->
             BdAddr([self.f0.f0.f0.f0 EXCEPT ![6] = BitAnd(@, 63)])
      [] self.v = "LeRandom" /\ self.f0.v = "Unknown" ->
             BdAddr([self.f0.f0.f0 EXCEPT ![6] = BitAnd(@, 63)])

into_bd_addr(self) ==
    CASE self.v = "BrEdr" -> self.f0
      [] self.v = "LePublic" -> self.f0.f0
      [] self.v = "LeRandom" /\ self.f0.v = "NonResolvable" -> self.f0.f0.f0
      [] self.v = "LeRandom" /\ self.f0.v = "Resolvable" -> self.f0.f0.f0
      [] self.v = "LeRandom" /\ self.f0.v = "Static" -> self.f0.f0.f0
      [] self.v = "LeRandom" /\ self.f0.v = "Unknown" -> self.f0.f0

-----------------------------------------------------------------------------
(* Text codec of addr.rs.  A text is a sequence of one-character strings.  *)

LowerHex == <<"0", "1", "2", "3", "4", "5", "6", "7",
              "8", "9", "a", "b", "c", "d", "e", "f">>

UpperHex == <<"0", "1", "2", "3", "4", "5", "6", "7",
              "8", "9", "A", "B", "C", "D", "E", "F">>

(* "{:02X}": upper-case digits *)
Hex02x_upper(v) == <<UpperHex[(v \div 16) + 1], UpperHex[(v % 16) + 1]>>

(* "{:02x}" applied to a u8 *)
Hex02x(v) == <<LowerHex[(v \div 16) + 1], LowerHex[(v % 16) + 1]>>

(* Display for BdAddr writing the bytes in storage order *)
BdAddr_fmt_storage_order(self) ==
    Hex02x(At(self.f0, 0)) \o <<":">> \o Hex02x(At(self.f0, 1)) \o <<":">> \o
    Hex02x(At(self.f0, 2)) \o <<":">> \o Hex02x(At(self.f0, 3)) \o <<":">> \o
    Hex02x(At(self.f0, 4)) \o <<":">> \o Hex02x(At(self.f0, 5))

BdAddr_fmt(self) ==
    Hex02x(At(self.f0, 5)) \o <<":">> \o Hex02x(At(self.f0, 4)) \o <<":">> \o
    Hex02x(At(self.f0, 3)) \o <<":">> \o Hex02x(At(self.f0, 2)) \o <<":">> \o
    Hex02x(At(self.f0, 1)) \o <<":">> \o Hex02x(At(self.f0, 0))

PublicDeviceAddress_fmt(self) == BdAddr_fmt(self.f0)

NonResolvablePrivateAddress_fmt(self) == BdAddr_fmt(self.f0)

ResolvablePrivateAddress_fmt(self) == BdAddr_fmt(self.f0)

StaticDeviceAddress_fmt(self) == BdAddr_fmt(self.f0)

RandomDeviceAddress_fmt(self) ==
    CASE self.v = "NonResolvable" -> NonResolvablePrivateAddress_fmt(self.f0)
      [] self.v = "Resolvable" -> ResolvablePrivateAddress_fmt(self.f0)
      [] self.v = "Static" -> StaticDeviceAddress_fmt(self.f0)
      [] self.v = "Unknown" -> BdAddr_fmt(self.f0)

Address_fmt(self) ==
    CASE self.v = "BrEdr" -> BdAddr_fmt(self.f0)
      [] self.v = "LePublic" -> PublicDeviceAddress_fmt(self.f0)
      [] self.v = "LeRandom" -> RandomDeviceAddress_fmt(self.f0)

(* ToString::to_string: the Display implementation of the value's type *)
to_string(v) ==
    CASE v.t = "BdAddr" -> BdAddr_fmt(v)
      [] v.t = "PublicDeviceAddress" -> PublicDeviceAddress_fmt(v)
      [] v.t = "NonResolvablePrivateAddress" -> NonResolvablePrivateAddress_fmt(v)
      [] v.t = "ResolvablePrivateAddress" -> ResolvablePrivateAddress_fmt(v)
      [] v.t = "StaticDeviceAddress" -> StaticDeviceAddress_fmt(v)
      [] v.t = "RandomDeviceAddress" -> RandomDeviceAddress_fmt(v)
      [] v.t = "Address" -> Address_fmt(v)

(* char::to_digit(16): the digit's value, or -1 when it is not a digit *)
to_digit(c) ==
    IF \E i \in 1..16 : LowerHex[i] = c
    THEN (CHOOSE i \in 1..16 : LowerHex[i] = c) - 1
    ELSE IF \E i \in 1..16 : UpperHex[i] = c
    THEN (CHOOSE i \in 1..16 : UpperHex[i] = c) - 1
    ELSE -1

(* the digit loop of u8::from_str_radix: checked multiply and add *)
RECURSIVE AccumulateDigits(_, _)
AccumulateDigits(digits, acc) ==
    IF digits = <<>> THEN Ok(acc)
    ELSE IF to_digit(Head(digits)) < 0 THEN Err("InvalidDigit")
    ELSE IF acc * 16 + to_digit(Head(digits)) > 255 THEN Err("PosOverflow")
    ELSE AccumulateDigits(Tail(digits), acc * 16 + to_digit(Head(digits)))

(* u8::from_str_radix(src, 16) *)
u8_from_str_radix(src) ==
    IF src = <<>> THEN Err("Empty")
    ELSE IF src = <<"+">> \/ src = <<"-">> THEN Err("InvalidDigit")
    ELSE IF Head(src) = "+" THEN AccumulateDigits(Tail(src), 0)
    ELSE AccumulateDigits(src, 0)

(* str::splitn(n, ':') *)
RECURSIVE splitn(_, _)
splitn(s, n) ==
    IF n = 1 \/ ~(\E i \in 1..Len(s) : s[i] = ":") THEN <<s>>
    ELSE LET i == CHOOSE j \in 1..Len(s) :
                      s[j] = ":" /\ \A k \in 1..(j - 1) : s[k] # ":"
         IN <<SubSeq(s, 1, i - 1)>> \o splitn(SubSeq(s, i + 1, Len(s)), n - 1)

(* FromStr for BdAddr without parts.reverse() *)
BdAddr_from_str_unreversed(s) ==
    LET fields == splitn(s, 6)
        parsed == [i \in 1..Len(fields) |-> u8_from_str_radix(fields[i])]
    IN IF \E i \in 1..Len(parsed) : parsed[i].t = "Err"
       THEN Err(AddressParseError)
       ELSE LET parts == [i \in 1..Len(parsed) |-> parsed[i].x]
            IN IF Len(parts) = 6 THEN Ok(BdAddr(parts))
               ELSE Err(AddressParseError)

BdAddr_from_str(s) ==
    LET fields == splitn(s, 6)
        parsed == [i \in 1..Len(fields) |-> u8_from_str_radix(fields[i])]
    IN IF \E i \in 1..Len(parsed) : parsed[i].t = "Err"
       THEN Err(AddressParseError)
       ELSE LET parts == Reverse([i \in 1..Len(parsed) |-> parsed[i].x])
            IN IF Len(parts) = 6 THEN Ok(BdAddr(parts))
               ELSE Err(AddressParseError)

(* TryFrom<&str> for BdAddr: value.parse() *)
BdAddr_try_from_str(value) == BdAddr_from_str(value)

bredr_from_str(s) ==
    LET r == BdAddr_from_str(s)
    IN IF r.t = "Err" THEN r ELSE Ok(BrEdr(r.x))

le_public_from_str(s) ==
    LET r == BdAddr_from_str(s)
    IN IF r.t = "Err" THEN r ELSE Ok(LePublic(PublicDeviceAddress(r.x)))

le_random_from_str(s) ==
    LET r == BdAddr_from_str(s)
    IN IF r.t = "Err" THEN r ELSE Ok(LeRandom(RandomDeviceAddress_new(r.x)))

-----------------------------------------------------------------------------
(* AES-128 single-block encryption (FIPS-197), as the aes crate's         *)
(* Aes128::new and encrypt_block compute it.  A block is 16 bytes; byte   *)
(* i (from 0) sits in row i % 4, column i \div 4 of the cipher state.     *)

RECURSIVE XorBits(_, _)
XorBits(a, b) ==
    IF a = 0 THEN b
    ELSE IF b = 0 THEN a
    ELSE ((a + b) % 2) + 2 * XorBits(a \div 2, b \div 2)

Xor(a, b) == XorBits(a, b)

SBox == <<
     99, 124, 119, 123, 242, 107, 111, 197,  48,   1, 103,  43, 254, 215, 171, 118,
    202, 130, 201, 125, 250,  89,  71, 240, 173, 212, 162, 175, 156, 164, 114, 192,
    183, 253, 147,  38,  54,  63, 247, 204,  52, 165, 229, 241, 113, 216,  49,  21,
      4, 199,  35, 195,  24, 150,   5, 154,   7,  18, 128, 226, 235,  39, 178, 117,
      9, 131,  44,  26,  27, 110,  90, 160,  82,  59, 214, 179,  41, 227,  47, 132,
     83, 209,   0, 237,  32, 252, 177,  91, 106, 203, 190,  57,  74,  76,  88, 207,
    208, 239, 170, 251,  67,  77,  51, 133,  69, 249,   2, 127,  80,  60, 159, 168,
     81, 163,  64, 143, 146, 157,  56, 245, 188, 182, 218,  33,  16, 255, 243, 210,
    205,  12,  19, 236,  95, 151,  68,  23, 196, 167, 126,  61, 100,  93,  25, 115,
     96, 129,  79, 220,  34,  42, 144, 136,  70, 238, 184,  20, 222,  94,  11, 219,
    224,  50,  58,  10,  73,   6,  36,  92, 194, 211, 172,  98, 145, 149, 228, 121,
    231, 200,  55, 109, 141, 213,  78, 169, 108,  86, 244, 234, 101, 122, 174,   8,
    186, 120,  37,  46,  28, 166, 180, 198, 232, 221, 116,  31,  75, 189, 139, 138,
    112,  62, 181, 102,  72,   3, 246,  14,  97,  53,  87, 185, 134, 193,  29, 158,
    225, 248, 152,  17, 105, 217, 142, 148, 155,  30, 135, 233, 206,  85,  40, 223,
    140, 161, 137,  13, 191, 230,  66, 104,  65, 153,  45,  15, 176,  84, 187,  22 >>

SubByte(a) == SBox[a + 1]

xtime(a) == IF 2 * a >= 256 THEN Xor(2 * a - 256, 27) ELSE 2 * a

Rcon == <<1, 2, 4, 8, 16, 32, 64, 128, 27, 54>>

XorWord(u, w) == <<Xor(u[1], w[1]), Xor(u[2], w[2]), Xor(u[3], w[3]), Xor(u[4], w[4])>>

(* the 44 words of the key schedule, built from word number Len(w)+1 on *)
RECURSIVE ExpandKey(_)
ExpandKey(w) ==
    IF Len(w) = 44 THEN w
    ELSE LET i == Len(w)
             last == w[i]
             temp == IF i % 4 = 0
                     THEN <<Xor(SubByte(last[2]), Rcon[i \div 4]), SubByte(last[3]),
                            SubByte(last[4]), SubByte(last[1])>>
                     ELSE last
         IN ExpandKey(Append(w, XorWord(w[i - 3], temp)))

(* the key schedule's words grouped four by four into round keys *)
RECURSIVE RoundKeys(_)
RoundKeys(w) ==
    IF w = <<>> THEN <<>>
    ELSE <<w[1] \o w[2] \o w[3] \o w[4]>> \o RoundKeys(SubSeq(w, 5, Len(w)))

(* Aes128::new(key): the eleven round keys *)
Aes128_new(k) ==
    LET w == ExpandKey(<<SubSeq(k, 1, 4), SubSeq(k, 5, 8),
                         SubSeq(k, 9, 12), SubSeq(k, 13, 16)>>)
    IN RoundKeys(w)

RECURSIVE AddRoundKey(_, _)
AddRoundKey(s, rk) ==
    IF s = <<>> THEN <<>>
    ELSE <<Xor(Head(s), Head(rk))>> \o AddRoundKey(Tail(s), Tail(rk))

RECURSIVE SubBytes(_)
SubBytes(s) ==
    IF s = <<>> THEN <<>> ELSE <<SubByte(Head(s))>> \o SubBytes(Tail(s))

(* row r of the state is rotated left by r columns *)
ShiftRows(s) ==
    <<s[1], s[6], s[11], s[16], s[5], s[10], s[15], s[4],
      s[9], s[14], s[3], s[8], s[13], s[2], s[7], s[12]>>

MixColumn(s, i) ==
    LET c == 4 * ((i - 1) \div 4)
        r == (i - 1) % 4
        a0 == s[c + r + 1]
        a1 == s[c + ((r + 1) % 4) + 1]
        a2 == s[c + ((r + 2) % 4) + 1]
        a3 == s[c + ((r + 3) % 4) + 1]
    IN Xor(Xor(xtime(a0), Xor(xtime(a1), a1)), Xor(a2, a3))

MixColumns(s) ==
    <<MixColumn(s, 1), MixColumn(s, 2), MixColumn(s, 3), MixColumn(s, 4),
      MixColumn(s, 5), MixColumn(s, 6), MixColumn(s, 7), MixColumn(s, 8),
      MixColumn(s, 9), MixColumn(s, 10), MixColumn(s, 11), MixColumn(s, 12),
      MixColumn(s, 13), MixColumn(s, 14), MixColumn(s, 15), MixColumn(s, 16)>>

(* rounds r..11 applied to the 16-byte state s; rks[r] is the key of round r - 1 *)
RECURSIVE Rounds(_, _, _)
Rounds(s, rks, r) ==
    CASE Len(s) = 16 /\ r < 11 ->
             Rounds(AddRoundKey(MixColumns(ShiftRows(SubBytes(s))), rks[r]), rks, r + 1)
      [] Len(s) = 16 /\ r = 11 ->
             AddRoundKey(ShiftRows(SubBytes(s)), rks[11])

(* cipher.encrypt_block(&mut block) *)
encrypt_block(cipher, block) == Rounds(AddRoundKey(block, cipher[1]), cipher, 2)

-----------------------------------------------------------------------------
(* matches.rs                                                              *)

InvalidAddressType == [t |-> "InvalidAddressType"]

(* self.0 in matches.rs: the six stored bytes of the address *)
self_0(self) == into_bd_addr(self).f0

(* Address::matches encrypting under the IRK as given, not reversed *)
matches_run_key_as_given(self, irk) ==
    IF BitAnd(At(self_0(self), 5), 192) # 64
    THEN [ret |-> Err(InvalidAddressType), hash |-> <<>>]
    ELSE LET r == Reverse(SubSeq(self_0(self), 4, 6) \o
                          <<0, 0, 0, 0, 0, 0, 0, 0, 0, 0, 0, 0, 0>>)
             cipher == Aes128_new(irk)
             encrypted == encrypt_block(cipher, r)
             tail == Reverse(SubSeq(encrypted, 14, 16))
         IN [ret |-> Ok(Bool(tail = SubSeq(self_0(self), 1, 3))),
             hash |-> encrypted]

(* Address::matches: `ret` is the value returned, `hash` the local block  *)
(* after encrypt_block (empty when the early return is taken)             *)
matches_run(self, irk) ==
    IF BitAnd(At(self_0(self), 5), 192) # 64
    THEN [ret |-> Err(InvalidAddressType), hash |-> <<>>]
    ELSE LET k == Reverse(irk)
             r == Reverse(SubSeq(self_0(self), 4, 6) \o
                          <<0, 0, 0, 0, 0, 0, 0, 0, 0, 0, 0, 0, 0>>)
             cipher == Aes128_new(k)
             encrypted == encrypt_block(cipher, r)
             tail == Reverse(SubSeq(encrypted, 14, 16))
         IN [ret |-> Ok(Bool(tail = SubSeq(self_0(self), 1, 3))),
             hash |-> encrypted]

matches(self, irk) == matches_run(self, irk).ret

-----------------------------------------------------------------------------
(* Inputs.                                                                 *)

(* b[5] of the byte arrays: the tops of the tests, then further patterns *)
TopByteList == <<53, 85, 181, 245, 83, 117, 5, 0, 255, 128, 64, 192, 63, 127, 191>>

(* b[0..5] of the byte arrays: the tests' bytes, and hash fields that     *)
(* resolve under one of the tests' keys                                   *)
LowPartList == << <<0, 17, 34, 51, 68>>, <<130, 189, 188, 140, 3>>,
                  <<104, 127, 122, 51, 68>>, <<255, 255, 255, 255, 255>>,
                  <<80, 169, 85, 51, 68>>, <<233, 160, 201, 1, 2>> >>

Min(a, b) == IF a < b THEN a ELSE b

ByteArrays ==
    { Append(LowPartList[i], TopByteList[j]) :
        i \in 1..Min(NumLowParts, Len(LowPartList)),
        j \in 1..Min(NumTopBytes, Len(TopByteList)) }

Irks == { <<25, 120, 162, 175, 221, 117, 123, 237,
            252, 157, 198, 158, 149, 215, 51, 179>>,
          <<26, 120, 162, 175, 221, 117, 123, 237,
            252, 157, 198, 158, 149, 215, 51, 179>> }

LowerFields == <<<<"3", "5">>, <<"4", "4">>, <<"3", "3">>, <<"2", "2">>, <<"1", "1">>, <<"0", "0">>, <<"6", "6">>, <<"7", "7">>, <<"8", "8">>, <<"9", "9">>>>

UpperFields == <<<<"F", "5">>, <<"E", "4">>, <<"D", "3">>, <<"C", "2">>, <<"B", "1">>, <<"A", "0">>, <<"9", "F">>, <<"8", "E">>, <<"7", "D">>, <<"6", "C">>>>

OddFields == {<<>>, <<"5">>, <<"0", "0", "5">>, <<"0", "f", "f">>, 
              <<"1", "0", "0">>, <<"1", "f", "f">>, <<"+", "5">>, <<"+", "f", "5">>, 
              <<"-", "5">>, <<"+">>, <<"Z", "Z">>, <<"5", "g">>, 
              <<"g", "5">>, <<" ", "5">>, <<"5", " ">>, <<"3", "5">>, 
              <<"7", "5">>, <<"b", "5">>, <<"B", "5">>, <<"f", "5">>, 
              <<"F", "f">>, <<"a", "0">>, <<"0", "x">>, <<"0", "0", "0", "0">>}

Separators == {":", "-"}

RECURSIVE Join(_, _)
Join(fields, sep) ==
    IF fields = <<>> THEN <<>>
    ELSE IF Len(fields) = 1 THEN fields[1]
    ELSE fields[1] \o <<sep>> \o Join(Tail(fields), sep)

(* texts of up to MaxFields fields, one of them possibly irregular *)
Texts ==
    { Join(SubSeq(base, 1, n), sep) :
        base \in {LowerFields, UpperFields}, n \in 0..MaxFields, sep \in Separators }
    \cup
    UNION { { Join([SubSeq(base, 1, n) EXCEPT ![k] = f], ":") :
                base \in {LowerFields, UpperFields}, k \in 1..n, f \in OddFields } :
            n \in 1..MaxFields }

Inputs == {Bytes(b) : b \in ByteArrays} \cup {Str(t) : t \in Texts}

-----------------------------------------------------------------------------
(* The state machine: one action per public operation.                     *)

Init ==
    /\ arg \in Inputs
    /\ val = arg
    /\ prev = Unit
    /\ op = "input"
    /\ key = <<>>
    /\ hash = <<>>

Step(name, result) ==
    /\ prev' = val
    /\ op' = name
    /\ val' = result
    /\ UNCHANGED <<arg, key, hash>>

Displayable ==
    {"BdAddr", "PublicDeviceAddress", "NonResolvablePrivateAddress",
     "ResolvablePrivateAddress", "StaticDeviceAddress", "RandomDeviceAddress",
     "Address"}

Do_BdAddr_from == val.t = "bytes" /\ Step("BdAddr::from", BdAddr_from(val.b))

Do_BdAddr_into_bytes ==
    val.t = "BdAddr" /\ Step("<[u8; 6]>::from", Bytes(BdAddr_into_bytes(val)))

Do_to_br_edr_addr == val.t = "BdAddr" /\ Step("to_br_edr_addr", to_br_edr_addr(val))

Do_to_le_public_addr ==
    val.t = "BdAddr" /\ Step("to_le_public_addr", to_le_public_addr(val))

Do_to_le_random_addr ==
    val.t = "BdAddr" /\ Step("to_le_random_addr", to_le_random_addr(val))

Do_to_string == val.t \in Displayable /\ Step("to_string", Str(to_string(val)))

Do_from_str == val.t = "str" /\ Step("BdAddr::from_str", BdAddr_from_str(val.s))

Do_try_from_str == val.t = "str" /\ Step("BdAddr::try_from", BdAddr_try_from_str(val.s))

Do_PublicDeviceAddress_from ==
    val.t = "bytes" /\ Step("PublicDeviceAddress::from", PublicDeviceAddress_from(val.b))

Do_Address_from_PublicDeviceAddress ==
    /\ val.t = "PublicDeviceAddress"
    /\ Step("Address::from(PublicDeviceAddress)", Address_from_PublicDeviceAddress(val))

Do_NonResolvablePrivateAddress_try_from ==
    /\ val.t = "bytes"
    /\ Step("NonResolvablePrivateAddress::try_from",
            NonResolvablePrivateAddress_try_from(val.b))

Do_ResolvablePrivateAddress_try_from ==
    /\ val.t = "bytes"
    /\ Step("ResolvablePrivateAddress::try_from",
            ResolvablePrivateAddress_try_from(val.b))

Do_StaticDeviceAddress_try_from ==
    /\ val.t = "bytes"
    /\ Step("StaticDeviceAddress::try_from", StaticDeviceAddress_try_from(val.b))

Do_RandomDeviceAddress_from_NonResolvable ==
    /\ val.t = "NonResolvablePrivateAddress"
    /\ Step("RandomDeviceAddress::from(NonResolvablePrivateAddress)",
            RandomDeviceAddress_from_NonResolvable(val))

Do_RandomDeviceAddress_from_Resolvable ==
    /\ val.t = "ResolvablePrivateAddress"
    /\ Step("RandomDeviceAddress::from(ResolvablePrivateAddress)",
            RandomDeviceAddress_from_Resolvable(val))

Do_RandomDeviceAddress_from_Static ==
    /\ val.t = "StaticDeviceAddress"
    /\ Step("RandomDeviceAddress::from(StaticDeviceAddress)",
            RandomDeviceAddress_from_Static(val))

Do_RandomDeviceAddress_from ==
    val.t = "bytes" /\ Step("RandomDeviceAddress::from", RandomDeviceAddress_from(val.b))

(* the public enum variant RandomDeviceAddress::Unknown applied to a BdAddr *)
Do_RandomDeviceAddress_Unknown ==
    val.t = "BdAddr" /\ Step("RandomDeviceAddress::Unknown", Unknown(val))

(* the public enum variants RandomDeviceAddress::NonResolvable, Resolvable  *)
(* and Static, each applied to a value of the wrapper type it holds        *)
Do_RandomDeviceAddress_NonResolvable ==
    /\ val.t = "NonResolvablePrivateAddress"
    /\ Step("RandomDeviceAddress::NonResolvable", NonResolvable(val))

Do_RandomDeviceAddress_Resolvable ==
    /\ val.t = "ResolvablePrivateAddress"
    /\ Step("RandomDeviceAddress::Resolvable", Resolvable(val))

Do_RandomDeviceAddress_Static ==
    /\ val.t = "StaticDeviceAddress"
    /\ Step("RandomDeviceAddress::Static", Static(val))

Do_Address_from_RandomDeviceAddress ==
    /\ val.t = "RandomDeviceAddress"
    /\ Step("Address::from(RandomDeviceAddress)", Address_from_RandomDeviceAddress(val))

(* the public enum variants Address::BrEdr, LePublic and LeRandom *)
Do_Address_BrEdr == val.t = "BdAddr" /\ Step("Address::BrEdr", BrEdr(val))

Do_Address_LePublic ==
    val.t = "PublicDeviceAddress" /\ Step("Address::LePublic", LePublic(val))

Do_Address_LeRandom ==
    val.t = "RandomDeviceAddress" /\ Step("Address::LeRandom", LeRandom(val))

Do_bredr_from == val.t = "bytes" /\ Step("bredr_from", bredr_from(val.b))

Do_le_public_from == val.t = "bytes" /\ Step("le_public_from", le_public_from(val.b))

Do_le_random_from == val.t = "bytes" /\ Step("le_random_from", le_random_from(val.b))

Do_bredr_from_str == val.t = "str" /\ Step("bredr_from_str", bredr_from_str(val.s))

Do_le_public_from_str ==
    val.t = "str" /\ Step("le_public_from_str", le_public_from_str(val.s))

Do_le_random_from_str ==
    val.t = "str" /\ Step("le_random_from_str", le_random_from_str(val.s))

Do_into_bd_addr == val.t = "Address" /\ Step("into_bd_addr", into_bd_addr(val))

Do_matches ==
    /\ val.t = "Address"
    /\ \E irk \in Irks :
          LET run == matches_run(val, irk)
          IN /\ key' = irk
             /\ hash' = run.hash
             /\ val' = run.ret
    /\ prev' = val
    /\ op' = "matches"
    /\ UNCHANGED arg

(* Result::unwrap of an Ok value, as the callers in the tests do *)
Do_unwrap == val.t = "Ok" /\ Step("unwrap", val.x)

Next ==
    \/ Do_BdAddr_from
    \/ Do_BdAddr_into_bytes
    \/ Do_to_br_edr_addr
    \/ Do_to_le_public_addr
    \/ Do_to_le_random_addr
    \/ Do_to_string
    \/ Do_from_str
    \/ Do_try_from_str
    \/ Do_PublicDeviceAddress_from
    \/ Do_Address_from_PublicDeviceAddress
    \/ Do_NonResolvablePrivateAddress_try_from
    \/ Do_ResolvablePrivateAddress_try_from
    \/ Do_StaticDeviceAddress_try_from
    \/ Do_RandomDeviceAddress_from_NonResolvable
    \/ Do_RandomDeviceAddress_from_Resolvable
    \/ Do_RandomDeviceAddress_from_Static
    \/ Do_RandomDeviceAddress_from
    \/ Do_RandomDeviceAddress_Unknown
    \/ Do_RandomDeviceAddress_NonResolvable
    \/ Do_RandomDeviceAddress_Resolvable
    \/ Do_RandomDeviceAddress_Static
    \/ Do_Address_from_RandomDeviceAddress
    \/ Do_Address_BrEdr
    \/ Do_Address_LePublic
    \/ Do_Address_LeRandom
    \/ Do_bredr_from
    \/ Do_le_public_from
    \/ Do_le_random_from
    \/ Do_bredr_from_str
    \/ Do_le_public_from_str
    \/ Do_le_random_from_str
    \/ Do_into_bd_addr
    \/ Do_matches
    \/ Do_unwrap

Spec == Init /\ [][Next]_vars

-----------------------------------------------------------------------------
(* Properties.                                                             *)

(* the six bytes a value holds, whatever wraps them *)
RECURSIVE RawBytes(_)
RawBytes(v) == IF v.t = "BdAddr" THEN v.f0 ELSE RawBytes(v.f0)

(* the top two bits of the last byte *)
TopTag(b) == b[6] \div 64

(* the tag boundary table: the sub-type variant of a tag, holding bytes b *)
TagTable(b) ==
    CASE TopTag(b) = 0 ->
             [t |-> "RandomDeviceAddress", v |-> "NonResolvable",
              f0 |-> [t |-> "NonResolvablePrivateAddress", f0 |-> BdAddr(b)]]
      [] TopTag(b) = 1 ->
             [t |-> "RandomDeviceAddress", v |-> "Resolvable",
              f0 |-> [t |-> "ResolvablePrivateAddress", f0 |-> BdAddr(b)]]
      [] TopTag(b) = 3 ->
             [t |-> "RandomDeviceAddress", v |-> "Static",
              f0 |-> [t |-> "StaticDeviceAddress", f0 |-> BdAddr(b)]]
      [] TopTag(b) = 2 ->
             [t |-> "RandomDeviceAddress", v |-> "Unknown", f0 |-> BdAddr(b)]

(* C1: lenient classification never fails and yields the variant the tag  *)
(* table gives for the top two bits of byte 5, holding the input bytes    *)
(* unchanged, through RandomDeviceAddress::from, Address::le_random_from, *)
(* BdAddr::to_le_random_addr and (on a parsed text) le_random_from_str.   *)
C1_ClassificationTotal ==
    /\ op = "RandomDeviceAddress::from" => val = TagTable(prev.b)
    /\ op = "le_random_from" => val = LeRandom(TagTable(prev.b))
    /\ op = "to_le_random_addr" => val = LeRandom(TagTable(prev.f0))
    /\ op = "le_random_from_str" /\ val.t = "Ok" =>
           val.x = LeRandom(TagTable(RawBytes(val.x)))

(* lenient classification has acted on bytes whose tag is the reserved 10 *)
C1_Witness ==
    /\ op = "le_random_from"
    /\ TopTag(prev.b) = 2
    /\ val.f0.v = "Unknown"

(* the outcome of a strict constructor with the given expected tag *)
StrictOutcome(result, b, expected, wrapper) ==
    /\ result.t = "Ok" <=> TopTag(b) = expected
    /\ result.t = "Ok" => result.x = [t |-> wrapper, f0 |-> BdAddr(b)]
    /\ result.t # "Ok" =>
           /\ result.t = "Err"
           /\ result.e = [t |-> "InvalidBitsForAddressType",
                          f0 |-> expected, f1 |-> TopTag(b)]
           /\ result.e.f0 # result.e.f1

(* C2: a strict constructor succeeds exactly when the top two bits of     *)
(* byte 5 equal its tag (00, 01, 11), then holds the input bytes, and     *)
(* otherwise fails with InvalidBitsForAddressType(expected, actual).      *)
C2_StrictConstruction ==
    /\ op = "NonResolvablePrivateAddress::try_from" =>
           StrictOutcome(val, prev.b, 0, "NonResolvablePrivateAddress")
    /\ op = "ResolvablePrivateAddress::try_from" =>
           StrictOutcome(val, prev.b, 1, "ResolvablePrivateAddress")
    /\ op = "StaticDeviceAddress::try_from" =>
           StrictOutcome(val, prev.b, 3, "StaticDeviceAddress")

(* a strict constructor has rejected bytes: Static asked, tag 00 found *)
C2_Witness ==
    /\ op = "StaticDeviceAddress::try_from"
    /\ val.t = "Err"
    /\ val.e.f0 = 3
    /\ val.e.f1 = 0

(* C3: RPA resolution on a BR/EDR address, an LE-public address or an     *)
(* LE-random address whose top two bits are not 01 returns                *)
(* InvalidAddressType without reaching the cipher, and Ok(false) is       *)
(* returned only for a resolvable random address.                         *)
C3_WrongTypeRejected ==
    op = "matches" =>
        /\ (prev.v \in {"BrEdr", "LePublic"} \/ TopTag(RawBytes(prev)) # 1) =>
               (val = Err(InvalidAddressType) /\ hash = <<>>)
        /\ val = Ok(Bool(FALSE)) =>
               (prev.v = "LeRandom" /\ prev.f0.v = "Resolvable")

(* the test's key and the same key with its first byte changed to 26 *)
TestIrk == <<25, 120, 162, 175, 221, 117, 123, 237,
             252, 157, 198, 158, 149, 215, 51, 179>>

FlippedIrk == <<26, 120, 162, 175, 221, 117, 123, 237,
                252, 157, 198, 158, 149, 215, 51, 179>>

TestRpa == <<130, 189, 188, 140, 3, 83>>

(* whether b[0..3] is the byte-reversed tail of AES-128 under reverse(k)  *)
(* of reverse(b[3], b[4], b[5], thirteen zero bytes)                      *)
Resolves(b, k) ==
    LET rk == <<k[16], k[15], k[14], k[13], k[12], k[11], k[10], k[9],
                k[8], k[7], k[6], k[5], k[4], k[3], k[2], k[1]>>
        r == <<0, 0, 0, 0, 0, 0, 0, 0, 0, 0, 0, 0, 0, b[6], b[5], b[4]>>
        c == encrypt_block(Aes128_new(rk), r)
    IN b[1] = c[16] /\ b[2] = c[15] /\ b[3] = c[14]

(* C4: on a resolvable address with bytes b and an IRK k, matches returns *)
(* Ok(true) exactly when b[0..3] is the reversed last three bytes of the  *)
(* AES-128 encryption, under reverse(k), of reverse(b[3..6] then 13       *)
(* zeros); true for the test's address and key, false with key byte 26.   *)
C4_ResolutionCorrect ==
    op = "matches" /\ prev.v = "LeRandom" /\ prev.f0.v = "Resolvable" =>
        /\ val = Ok(Bool(Resolves(RawBytes(prev), key)))
        /\ RawBytes(prev) = TestRpa /\ key = TestIrk => val = Ok(Bool(TRUE))
        /\ RawBytes(prev) = TestRpa /\ key = FlippedIrk => val = Ok(Bool(FALSE))

(* a resolvable address other than the test's has resolved under a key *)
C4_Witness ==
    /\ op = "matches"
    /\ prev.v = "LeRandom"
    /\ prev.f0.v = "Resolvable"
    /\ RawBytes(prev) # TestRpa
    /\ val = Ok(Bool(TRUE))

(* the value of a hexadecimal digit, and its lower-case form *)
HexDigitValue ==
    "0" :> 0 @@ "1" :> 1 @@ "2" :> 2 @@ "3" :> 3 @@ "4" :> 4 @@ "5" :> 5 @@
    "6" :> 6 @@ "7" :> 7 @@ "8" :> 8 @@ "9" :> 9 @@
    "a" :> 10 @@ "b" :> 11 @@ "c" :> 12 @@ "d" :> 13 @@ "e" :> 14 @@ "f" :> 15 @@
    "A" :> 10 @@ "B" :> 11 @@ "C" :> 12 @@ "D" :> 13 @@ "E" :> 14 @@ "F" :> 15

LowerCaseOf ==
    "A" :> "a" @@ "B" :> "b" @@ "C" :> "c" @@ "D" :> "d" @@ "E" :> "e" @@ "F" :> "f"

IsHexDigit(c) == c \in DOMAIN HexDigitValue

ToLower(c) == IF c \in DOMAIN LowerCaseOf THEN LowerCaseOf[c] ELSE c

LowerText(s) == [i \in 1..Len(s) |-> ToLower(s[i])]

(* all the fields of a text between its colons *)
RECURSIVE ColonFields(_)
ColonFields(s) ==
    IF s = <<>> THEN << <<>> >>
    ELSE LET rest == ColonFields(Tail(s))
         IN IF Head(s) = ":" THEN << <<>> >> \o rest
            ELSE << <<Head(s)>> \o rest[1] >> \o Tail(rest)

TwoHexDigits(f) == Len(f) = 2 /\ IsHexDigit(f[1]) /\ IsHexDigit(f[2])

AllHexDigits(f) == \A i \in 1..Len(f) : IsHexDigit(f[i])

(* six groups of two hexadecimal digits joined by ':' *)
WellFormed(s) ==
    /\ Len(ColonFields(s)) = 6
    /\ \A i \in 1..6 : TwoHexDigits(ColonFields(s)[i])

ParseOps ==
    {"BdAddr::from_str", "BdAddr::try_from",
     "bredr_from_str", "le_public_from_str", "le_random_from_str"}

(* C5: parsing the Display text of BdAddr(b) succeeds and gives back      *)
(* BdAddr(b), for every byte array b.                                     *)
C5_FormatParseRoundTrip ==
    /\ arg.t = "bytes"
    /\ op \in {"BdAddr::from_str", "BdAddr::try_from"}
    /\ prev = Str(BdAddr_fmt(BdAddr(arg.b)))
    => val = Ok(BdAddr(arg.b))

(* the text formatted from the bytes 00 11 22 33 44 b5 has been parsed back *)
C5_Witness ==
    /\ arg = Bytes(<<0, 17, 34, 51, 68, 181>>)
    /\ op = "BdAddr::from_str"
    /\ prev.s = <<"b", "5", ":", "4", "4", ":", "3", "3", ":",
                  "2", "2", ":", "1", "1", ":", "0", "0">>
    /\ val.t = "Ok"

(* C6: parsing fails whenever a colon-separated field is not exactly two  *)
(* hexadecimal digits; a text is accepted only if it has six such fields. *)
C6_OnlyTwoDigitOctets ==
    op \in ParseOps =>
        /\ (\E i \in 1..Len(ColonFields(prev.s)) :
                ~TwoHexDigits(ColonFields(prev.s)[i]))
           => val = Err(AddressParseError)
        /\ val.t = "Ok" => WellFormed(prev.s)

(* C7: parsing fails, through every parsing constructor, whenever the     *)
(* text does not have exactly six colon-separated fields or has a field   *)
(* with a character that is not a hexadecimal digit.                      *)
C7_MalformedRejected ==
    op \in ParseOps =>
        ( ( \/ Len(ColonFields(prev.s)) # 6
            \/ \E i \in 1..Len(ColonFields(prev.s)) :
                   ~AllHexDigits(ColonFields(prev.s)[i]) )
          => val = Err(AddressParseError) )

(* C8: a text of six two-digit groups parses, its k-th group is stored at *)
(* byte index 5 - k, and formatting the result gives the text in lower    *)
(* case.                                                                  *)
C8_ParseFormatRoundTrip ==
    op \in {"BdAddr::from_str", "BdAddr::try_from"} /\ WellFormed(prev.s) =>
        /\ val.t = "Ok"
        /\ \A k \in 0..5 :
               val.x.f0[(5 - k) + 1] =
                   16 * HexDigitValue[ColonFields(prev.s)[k + 1][1]]
                   + HexDigitValue[ColonFields(prev.s)[k + 1][2]]
        /\ BdAddr_fmt(val.x) = LowerText(prev.s)

(* an upper-case text of six groups has been parsed *)
C8_Witness ==
    /\ op = "BdAddr::from_str"
    /\ prev.s = <<"F", "5", ":", "E", "4", ":", "D", "3", ":",
                  "C", "2", ":", "B", "1", ":", "A", "0">>
    /\ val = Ok(BdAddr(<<160, 177, 194, 211, 228, 245>>))

LowerDigits == <<"0", "1", "2", "3", "4", "5", "6", "7",
                 "8", "9", "a", "b", "c", "d", "e", "f">>

(* seventeen characters: bytes 5 down to 0, two lower-case digits each *)
DisplayText(b) ==
    [i \in 1..17 |->
        IF i % 3 = 0 THEN ":"
        ELSE IF i % 3 = 1 THEN LowerDigits[(b[6 - ((i - 1) \div 3)] \div 16) + 1]
        ELSE LowerDigits[(b[6 - ((i - 1) \div 3)] % 16) + 1]]

(* C9: Display renders bytes 5, 4, 3, 2, 1, 0 as two lower-case hex       *)
(* digits each, joined by ':', whatever type or variant holds the bytes.  *)
C9_DisplayReversedLowerHex ==
    op = "to_string" => val.s = DisplayText(RawBytes(prev)) /\ Len(val.s) = 17

(* an Unknown random address with an upper nibble above 9 has been rendered *)
C9_Witness ==
    /\ op = "to_string"
    /\ prev.t = "Address"
    /\ prev.v = "LeRandom"
    /\ prev.f0.v = "Unknown"
    /\ val.s = <<"b", "5", ":", "4", "4", ":", "3", "3", ":",
                 "2", "2", ":", "1", "1", ":", "0", "0">>

(* strict construction of one sub-type agrees with lenient classification *)
Agrees(strict, b, variant) ==
    /\ strict.t = "Ok" =>
           /\ RandomDeviceAddress_from(b) =
                  [t |-> "RandomDeviceAddress", v |-> variant, f0 |-> strict.x]
           /\ RawBytes(RandomDeviceAddress_from(b)) = b
           /\ Address_from_RandomDeviceAddress(
                  [t |-> "RandomDeviceAddress", v |-> variant, f0 |-> strict.x])
              = to_le_random_addr(BdAddr_from(b))
           /\ to_le_random_addr(BdAddr_from(b)) = le_random_from(b)
    /\ strict.t # "Ok" => RandomDeviceAddress_from(b).v # variant

StrictSuccesses(b) ==
    {x \in {"NonResolvable", "Resolvable", "Static"} :
        CASE x = "NonResolvable" -> NonResolvablePrivateAddress_try_from(b).t = "Ok"
          [] x = "Resolvable" -> ResolvablePrivateAddress_try_from(b).t = "Ok"
          [] x = "Static" -> StaticDeviceAddress_try_from(b).t = "Ok"}

(* C10: when a strict constructor succeeds on b, lenient classification   *)
(* of b is that sub-type with the same bytes; when it fails, lenient      *)
(* classification is another sub-type; at most one strict constructor     *)
(* succeeds, and none exactly when classification is Unknown.             *)
C10_StrictLenientAgree ==
    /\ op = "NonResolvablePrivateAddress::try_from" =>
           Agrees(val, prev.b, "NonResolvable")
    /\ op = "ResolvablePrivateAddress::try_from" =>
           Agrees(val, prev.b, "Resolvable")
    /\ op = "StaticDeviceAddress::try_from" =>
           Agrees(val, prev.b, "Static")
    /\ op = "RandomDeviceAddress::from" =>
           /\ Cardinality(StrictSuccesses(prev.b)) <= 1
           /\ StrictSuccesses(prev.b) = {} <=> val.v = "Unknown"

(* the strict Resolvable constructor has accepted bytes *)
C10_Witness ==
    /\ op = "ResolvablePrivateAddress::try_from"
    /\ val.t = "Ok"
    /\ RandomDeviceAddress_from(prev.b).v = "Resolvable"

(* every RandomDeviceAddress the value holds: the value itself, or the one *)
(* inside an Address::LeRandom                                             *)
RandomsIn(v) ==
    IF v.t = "RandomDeviceAddress" THEN {v}
    ELSE IF v.t = "Address" /\ v.v = "LeRandom" THEN {v.f0}
    ELSE {}

(* C11: after any sequence of the public operations, every                 *)
(* RandomDeviceAddress that exists has the variant the tag table assigns   *)
(* to its own bytes: NonResolvable only with top bits 00, Resolvable only  *)
(* with 01, Static only with 11, Unknown only with 10.                     *)
C11_VariantMatchesBytes ==
    \A r \in RandomsIn(val) : r = TagTable(RawBytes(r))

(* the constructors of Address that take bytes, and those that take a text *)
ByteConstructors == {"bredr_from", "le_public_from", "le_random_from"}

StrConstructors == {"bredr_from_str", "le_public_from_str", "le_random_from_str"}

(* the to_*_addr conversion that matches the kind of address a *)
Rewrap(a, bd) ==
    CASE a.v = "BrEdr" -> to_br_edr_addr(bd)
      [] a.v = "LePublic" -> to_le_public_addr(bd)
      [] a.v = "LeRandom" -> to_le_random_addr(bd)

(* extraction from a gives BdAddr(b), and re-wrapping that gives back a *)
Extracts(a, b) ==
    /\ into_bd_addr(a) = BdAddr(b)
    /\ Rewrap(a, into_bd_addr(a)) = a

(* C12: Address::into_bd_addr is total and discards only the kind: it      *)
(* returns the BdAddr of the bytes the address was built from, the same    *)
(* for every kind built from those bytes, and for an address built by      *)
(* bredr_from, le_public_from, le_random_from or a *_from_str constructor  *)
(* the matching to_*_addr conversion of the result is the address again.   *)
C12_IntoBdAddrTotal ==
    /\ op = "into_bd_addr" =>
           /\ val = BdAddr(RawBytes(prev))
           /\ arg.t = "bytes" => val = BdAddr(arg.b)
           /\ \A other \in {bredr_from(val.f0), le_public_from(val.f0),
                             le_random_from(val.f0)} :
                  into_bd_addr(other) = val
    /\ op \in ByteConstructors => Extracts(val, prev.b)
    /\ op \in StrConstructors /\ val.t = "Ok" =>
           /\ Extracts(val.x, RawBytes(val.x))
           /\ arg.t = "bytes" => into_bd_addr(val.x) = BdAddr(arg.b)

(* into_bd_addr has acted on a Static LE-random address built from bytes *)
C12_Witness ==
    /\ op = "into_bd_addr"
    /\ arg.t = "bytes"
    /\ prev = le_random_from(arg.b)
    /\ prev.f0.v = "Static"
    /\ val = BdAddr(arg.b)

====
